---- MODULE Spec2Model ----
(***************************************************************************)
(* Session synchronisation over WebSocket: the "/ws" connection handler of *)
(* registerRoutes (src/auth.tsx) and the in-memory session store DbStorage *)
(* (src/unnamed/part_001).                                                 *)
(*                                                                         *)
(* Execution model.  Node runs one macrotask at a time (a connection       *)
(* event, a chunk of inbound frames, a transport close) and drains the     *)
(* FIFO microtask queue before the next macrotask.  Every `await` of the   *)
(* handlers waits on a promise that is already resolved (the DbStorage     *)
(* session methods contain no await), so each await puts the continuation  *)
(* at the tail of the microtask queue.  One step of the model is one       *)
(* synchronous segment of code between two awaits.                         *)
(*                                                                         *)
(* Three specifications: Spec is the WebSocket server with its store;      *)
(* SpecHttp adds POST /api/session, which creates a session under a random *)
(* id; SpecBrief is DbStorage.updateBrief on its own, applied to any brief *)
(* and any update.                                                         *)
(*                                                                         *)
(* JavaScript values are tagged records; strings are sequences of          *)
(* one-character strings so that toLowerCase, startsWith and template      *)
(* literals are computed, not assumed.                                     *)
(***************************************************************************)
EXTENDS Integers, Sequences, FiniteSets

\* ------------------------------------------------------------------ bounds
MaxConns  == 2     \* connections opened in one run
MaxFrames == 2     \* inbound frames delivered in one run (all connections)
MaxBatch  == 2     \* frames the receiver emits from one chunk
MaxClock  == 1     \* milliseconds that pass in one run

\* ------------------------------------------------------- JavaScript values
Undef   == [t |-> "undefined"]
Null    == [t |-> "null"]
Inf     == [t |-> "infinity"]
Bool(b) == [t |-> "boolean", v |-> b]
Num(n)  == [t |-> "number", v |-> n]
Str(s)  == [t |-> "string", v |-> s]

\* wire-only forms: a property that is not in the JSON text, and a JSON
\* number literal whose magnitude is beyond the double range (1e400)
Absent  == [t |-> "absent"]
BigLit  == [t |-> "bignumber"]

Truthy(v) ==
  CASE v.t = "undefined" -> FALSE
    [] v.t = "null"      -> FALSE
    [] v.t = "boolean"   -> v.v
    [] v.t = "number"    -> v.v # 0
    [] v.t = "string"    -> Len(v.v) > 0
    [] OTHER             -> TRUE

Upper == <<"A","B","C","D","E","F","G","H","I","J","K","L","M",
           "N","O","P","Q","R","S","T","U","V","W","X","Y","Z">>
Lower == <<"a","b","c","d","e","f","g","h","i","j","k","l","m",
           "n","o","p","q","r","s","t","u","v","w","x","y","z">>

\* A code unit outside ASCII is written by its code point, "U+00C9".
\* String.prototype.toLowerCase follows the Unicode case mapping: the
\* lower case of one code unit is a string, whose length need not be 1
\* (U+0130 gives "i" and the combining dot U+0307; the Kelvin sign U+212A
\* gives the ASCII "k").  The alphabet is ASCII and the code units below.
toLowerChar(ch) ==
  CASE \E i \in 1..26 : Upper[i] = ch ->
         << Lower[CHOOSE i \in 1..26 : Upper[i] = ch] >>
    [] ch = "U+00C9" -> << "U+00E9" >>
    [] ch = "U+0130" -> << "i", "U+0307" >>
    [] ch = "U+212A" -> << "k" >>
    [] OTHER         -> << ch >>

RECURSIVE toLowerCase(_)
toLowerCase(s) ==
  IF s = <<>> THEN <<>> ELSE toLowerChar(Head(s)) \o toLowerCase(Tail(s))

startsWith(s, p) == Len(s) >= Len(p) /\ SubSeq(s, 1, Len(p)) = p

DigitChars == <<"0","1","2","3","4","5","6","7","8","9">>

RECURSIVE NatToString(_)
NatToString(n) ==
  IF n < 10 THEN <<DigitChars[n + 1]>>
  ELSE NatToString(n \div 10) \o <<DigitChars[(n % 10) + 1]>>

\* ${v} in a template literal
TemplateString(v) ==
  CASE v.t = "undefined" -> <<"u","n","d","e","f","i","n","e","d">>
    [] v.t = "null"      -> <<"n","u","l","l">>
    [] v.t = "infinity"  -> <<"I","n","f","i","n","i","t","y">>
    [] v.t = "boolean"   -> IF v.v THEN <<"t","r","u","e">>
                            ELSE <<"f","a","l","s","e">>
    [] v.t = "number"    -> NatToString(v.v)
    [] v.t = "string"    -> v.v

\* ------------------------------------------------------------------- JSON
\* JSON.parse of one value of the text: a literal beyond the double range
\* becomes Infinity, a property that is not there reads as undefined.
ParseValue(w) ==
  CASE w.t = "bignumber" -> Inf
    [] w.t = "absent"    -> Undef
    [] OTHER             -> w

\* JSON.stringify of one property value: undefined is left out, a
\* non-finite number is written as null.
StringifyValue(v) ==
  CASE v.t = "undefined" -> Absent
    [] v.t = "infinity"  -> Null
    [] OTHER             -> v

\* ------------------------------------------------------- string literals
S_UI_RESPONSE  == <<"U","I","_","R","E","S","P","O","N","S","E">>
S_TODO_CONFIRM == <<"T","O","D","O","_","C","O","N","F","I","R","M">>
S_AGENT_NOTE   == <<"A","G","E","N","T","_","N","O","T","E">>
S_PING         == <<"P","I","N","G">>
S_style        == <<"s","t","y","l","e">>
S_palette      == <<"p","a","l","e","t","t","e">>
S_finish       == <<"f","i","n","i","s","h">>

\* ---------------------------------------------------------- wire messages
\* An inbound JSON object, by the properties the handler reads.
WObj(type, promptId, selectedOptionId, ok, message, ts) ==
  [t |-> "object", type |-> type, promptId |-> promptId,
   selectedOptionId |-> selectedOptionId, ok |-> ok,
   message |-> message, ts |-> ts]

\* JSON.parse(data.toString()) of a frame that holds JSON text
JSONparse(w) ==
  IF w.t = "object"
  THEN [t |-> "object",
        type             |-> ParseValue(w.type),
        promptId         |-> ParseValue(w.promptId),
        selectedOptionId |-> ParseValue(w.selectedOptionId),
        ok               |-> ParseValue(w.ok),
        message          |-> ParseValue(w.message),
        ts               |-> ParseValue(w.ts)]
  ELSE ParseValue(w)

\* message.<k> on a parsed value that is not null: a primitive has no such
\* property
Prop(m, k) == IF m.t = "object" THEN m[k] ELSE Undef

\* a frame: text that is not JSON, or JSON text of the value v
BadFrame      == [json |-> FALSE]
JsonFrame(w)  == [json |-> TRUE, v |-> w]

\* frames the receiver of ws does not emit as 'message': the close frame of
\* the peer, and a frame that breaks the protocol (unmasked, reserved
\* opcode)
CloseFrame    == [json |-> FALSE, opcode |-> 8]
InvalidFrame  == [json |-> FALSE, opcode |-> 3]
ControlFrames == { CloseFrame, InvalidFrame }

\* outbound payloads, as JSON.stringify writes them
ErrorMsg(e)        == [type |-> "ERROR", error |-> e]
CallFinishedMsg(s) == [type |-> "CALL_FINISHED", sessionId |-> StringifyValue(s)]
PongMsg(ts)        == [type |-> "PONG", ts |-> StringifyValue(ts)]
\* mutant: the last item is missing
TodoPreviewItems_Four ==
  << "Review and finalize painting style preferences",
     "Confirm color palette selections",
     "Schedule initial consultation call",
     "Review project timeline and milestones" >>

TodoPreviewItems ==
  << "Review and finalize painting style preferences",
     "Confirm color palette selections",
     "Schedule initial consultation call",
     "Review project timeline and milestones",
     "Prepare room measurements and photos" >>
TodoPreviewMsg     == [type |-> "TODO_PREVIEW", items |-> TodoPreviewItems]

\* calls made on the ws object
SendCall(payload)       == [call |-> "send", data |-> payload]
CloseCall(code, reason) == [call |-> "close", code |-> code, reason |-> reason]

\* ------------------------------------------------------------------ state
VARIABLES
  running,   \* the Node process has not exited
  now,       \* the value Date.now() returned last
  heap,      \* the Session objects ever constructed, by reference 1..Len
  sessions,  \* DbStorage.sessions: Map from session id to a reference
  conns,     \* per connection: readyState, closure variable sessionId,
             \* whether ws.on("message") has run, whether ws still reads
             \* the socket (socketOnData attached), whether the socket
             \* has ended (no more data will come), calls made on ws,
             \* frames received on the socket, and how many of them are of
             \* the kinds the handler logs
  pending,   \* frames of the current chunk the receiver has yet to emit
  microq,    \* FIFO microtask queue: continuations of suspended handlers
  nframes,   \* frames delivered so far
  last       \* the segment executed by the last step, the state before it

vars == <<running, now, heap, sessions, conns, pending, microq, nframes, last>>

Conns == 1..MaxConns

\* ------------------------------------------------------------- DbStorage
NoSession == 0

\* Map.get
getSession(map, id) == IF id \in DOMAIN map THEN map[id] ELSE NoSession

\* Map.set
MapSet(map, id, ref) ==
  [k \in DOMAIN map \cup {id} |-> IF k = id THEN ref ELSE map[k]]

EmptyBrief ==
  [style |-> Null, palette |-> Null, finish |-> Null,
   vibe |-> <<>>, rooms |-> <<>>, constraints |-> <<>>,
   timeline |-> Null, budget |-> Null, openQuestions |-> <<>>]

\* the object literal of createSession
NewSession(id, ts) ==
  [id |-> id, createdAt |-> ts, messages |-> <<>>, brief |-> EmptyBrief,
   todos |-> <<>>, approvals |-> <<>>]

\* mutant: an id that is in the store keeps its record
createSession_IfMissing(h, map, id, ts) ==
  IF id \in DOMAIN map THEN [heap |-> h, sessions |-> map]
  ELSE [heap |-> Append(h, NewSession(id, ts)),
        sessions |-> MapSet(map, id, Len(h) + 1)]

\* createSession: a fresh object, stored under id whatever was there
createSession(h, map, id, ts) ==
  [heap |-> Append(h, NewSession(id, ts)),
   sessions |-> MapSet(map, id, Len(h) + 1)]

\* saveSession: this.sessions.set(session.id, session), for the object at
\* reference ref
saveSession(h, map, ref) == MapSet(map, h[ref].id, ref)

\* { ...a, ...b }
Spread(a, b) ==
  [k \in DOMAIN a \cup DOMAIN b |-> IF k \in DOMAIN b THEN b[k] ELSE a[k]]

\* mutant: an array field of the update is appended to the current array
updateBrief_ConcatArrays(h, map, id, updates) ==
  IF getSession(map, id) = NoSession THEN h
  ELSE IF "rooms" \in DOMAIN updates
  THEN [h EXCEPT ![getSession(map, id)].brief =
          Spread(@, [updates EXCEPT
                       !.rooms = h[getSession(map, id)].brief.rooms \o @])]
  ELSE [h EXCEPT ![getSession(map, id)].brief = Spread(@, updates)]

\* mutant: keys that are not fields of the brief are dropped
updateBrief_KnownKeysOnly(h, map, id, updates) ==
  IF getSession(map, id) = NoSession THEN h
  ELSE [h EXCEPT ![getSession(map, id)].brief =
          Spread(@, [k \in DOMAIN updates \cap DOMAIN EmptyBrief |-> updates[k]])]

\* mutant: constraints of the update are merged into the current ones
updateBrief_MergeConstraints(h, map, id, updates) ==
  IF getSession(map, id) = NoSession THEN h
  ELSE IF "constraints" \in DOMAIN updates
  THEN [h EXCEPT ![getSession(map, id)].brief =
          Spread(@, [updates EXCEPT
                       !.constraints = Spread(h[getSession(map, id)].brief.constraints, @)])]
  ELSE [h EXCEPT ![getSession(map, id)].brief = Spread(@, updates)]

\* updateBrief: in-place assignment of session.brief; undefined id: no-op
updateBrief(h, map, id, updates) ==
  IF getSession(map, id) = NoSession THEN h
  ELSE [h EXCEPT ![getSession(map, id)].brief = Spread(@, updates)]

\* mutant: the approval is not pushed
addApproval_NoPush(h, map, id, approval) == h

\* mutant: the log is written back as the new entry alone
addApproval_ReplaceLog(h, map, id, approval) ==
  IF getSession(map, id) = NoSession THEN h
  ELSE [h EXCEPT ![getSession(map, id)].approvals = <<approval>>]

\* addApproval: in-place push; undefined id: no-op
addApproval(h, map, id, approval) ==
  IF getSession(map, id) = NoSession THEN h
  ELSE [h EXCEPT ![getSession(map, id)].approvals = Append(@, approval)]

\* ------------------------------------------------------------ the ws object
\* ws.send(JSON.stringify(payload)): the call is recorded
wsSend(cs, c, payload) == [cs EXCEPT ![c].out = Append(@, SendCall(payload))]

\* ws.close(code, reason): OPEN becomes CLOSING; frames the peer sent before
\* it answers the close are still emitted
wsClose(cs, c, code, reason) ==
  [cs EXCEPT ![c].out = Append(@, CloseCall(code, reason)),
             ![c].readyState = IF @ = "OPEN" THEN "CLOSING" ELSE @]

\* ----------------------------------------------------------------- inputs
SessionIdParams ==
  { Null, Str(<<>>), Str(<<"s","1">>), Str(<<"s","2">>) }

UiResponses ==
  { <<Str(<<"S","t","y","l","e","1">>), Str(<<"a">>)>>,
    <<Str(<<"S","t","y","l","e","1">>), Str(<<"b">>)>>,
    <<Str(<<"P","A","L","E","T","T","E">>), Str(<<"a">>)>>,
    <<Str(<<"f","i","n","i","s","h","_","x">>), Str(<<"a">>)>>,
    <<Str(<<"r","o","o","m">>), Str(<<"a">>)>>,
    <<Str(<<"r","o","o","m">>), Str(<<"b">>)>>,
    <<Str(<<"s","t","y">>), Str(<<"a">>)>>,
    <<Absent, Str(<<"a">>)>> }

Frames ==
  { BadFrame, JsonFrame(Null), JsonFrame(Num(5)) }
  \cup { JsonFrame(WObj(Str(S_UI_RESPONSE), u[1], u[2], Absent, Absent, Absent)) :
           u \in UiResponses }
  \cup { JsonFrame(WObj(Str(S_TODO_CONFIRM), Absent, Absent, ok, Absent, Absent)) :
           ok \in { Bool(TRUE), Bool(FALSE), Absent } }
  \cup { JsonFrame(WObj(Str(S_AGENT_NOTE), Absent, Absent, Absent, m, Absent)) :
           m \in { Str(<<"h","i">>), Str(<<>>), Absent, Num(5) } }
  \cup { JsonFrame(WObj(Str(S_PING), Absent, Absent, Absent, Absent, ts)) :
           ts \in { Num(1), BigLit, Absent } }
  \cup { JsonFrame(WObj(Str(<<"F","O","O">>), Absent, Absent, Absent, Absent, Absent)),
         JsonFrame(WObj(Absent, Absent, Absent, Absent, Absent, Absent)) }

\* the frames of one chunk: the receiver reads nothing behind a close
\* frame or a frame that breaks the protocol
ChunksOf(F) ==
  UNION { [1..n -> F] : n \in 1..MaxBatch }
    \cup { << k >> : k \in ControlFrames }
    \cup UNION { { Append(b, k) : b \in [1..n -> F], k \in ControlFrames } :
                 n \in 1..(MaxBatch - 1) }

Batches == ChunksOf(Frames)

\* the frames a run sends to a connection that has no listener: nothing
\* reads their content
UnheardFrames ==
  { BadFrame,
    JsonFrame(WObj(Str(S_PING), Absent, Absent, Absent, Absent, Num(1))),
    JsonFrame(WObj(Str(S_AGENT_NOTE), Absent, Absent, Absent,
                   Str(<<"h","i">>), Absent)),
    JsonFrame(WObj(Str(S_UI_RESPONSE), Str(<<"S","t","y","l","e","1">>),
                   Str(<<"a">>), Absent, Absent, Absent)) }

UnheardBatches == ChunksOf(UnheardFrames)

\* the session ids are interchangeable: the first connection of a run
\* names the first of them
SessionIdsOf(c) ==
  IF c = 1 THEN SessionIdParams \ { Str(<<"s","2">>) } ELSE SessionIdParams

\* ---------------------------------------------------------------- helpers
NoFrame == [none |-> TRUE]

\* the event loop has nothing left to run: the next macrotask can start
Idle == running /\ pending.frames = <<>> /\ microq = <<>>

\* no brief was recorded
NoBrief == [none |-> TRUE]

\* what the step about to be taken is, and the state it starts from; for
\* the step in which a UI_RESPONSE handler ends, also the brief that was
\* stored when its message was emitted
Record(op, c, frame, message, done, added, erred) ==
  [op |-> op, c |-> c, frame |-> frame, message |-> message,
   done |-> done, added |-> added, erred |-> erred, before |-> NoBrief,
   pre |-> [heap |-> heap, sessions |-> sessions, conns |-> conns]]

\* a suspended async function: where it resumes and its locals; before is
\* history, the brief that was stored when a UI_RESPONSE handler started
Task(pc, c, frame, message, ref, added) ==
  [pc |-> pc, c |-> c, frame |-> frame, message |-> message,
   ref |-> ref, added |-> added, before |-> NoBrief]

Init ==
  /\ running = TRUE
  /\ now = 0
  /\ heap = <<>>
  /\ sessions = <<>>
  /\ conns = [c \in Conns |->
                [readyState |-> "NEW", sessionId |-> Undef,
                 handler |-> FALSE, socketOnData |-> FALSE,
                 socketEnded |-> FALSE,
                 out |-> <<>>, received |-> 0, due |-> 0]]
  /\ pending = [c |-> 1, frames |-> <<>>]
  /\ microq = <<>>
  /\ nframes = 0
  /\ last = [op |-> "Init", c |-> 0, frame |-> NoFrame, message |-> Undef,
             done |-> FALSE, added |-> 0, erred |-> FALSE,
             before |-> NoBrief,
             pre |-> [heap |-> <<>>, sessions |-> <<>>,
                      conns |-> [c \in Conns |->
                                   [readyState |-> "NEW", sessionId |-> Undef,
                                    handler |-> FALSE, socketOnData |-> FALSE,
                 socketEnded |-> FALSE,
                 out |-> <<>>, received |-> 0, due |-> 0]]]]

\* Date.now() has millisecond resolution: a call returns the value the
\* call before it returned, or a later one.  now is the value last read.
Elapse == now' \in { now, now + 1 } /\ now' <= MaxClock

\* --------------------------------------------- wss.on("connection", ...)
\* connections are numbered in the order they are opened
CanConnect(c) ==
  /\ Idle
  /\ conns[c].readyState = "NEW"
  /\ \A d \in Conns : d < c => conns[d].readyState # "NEW"

\* sessionId is null or "": close 1008 and return, nothing is installed
ConnectRejected(c, sessionId) ==
  /\ CanConnect(c)
  /\ ~Truthy(sessionId)
  /\ conns' = wsClose([conns EXCEPT ![c].readyState = "OPEN",
                                    ![c].socketOnData = TRUE,
                                    ![c].sessionId = sessionId],
                      c, 1008, "Missing sessionId parameter")
  /\ last' = Record("ConnectRejected", c, NoFrame, Undef, TRUE, 0, FALSE)
  /\ UNCHANGED <<running, now, heap, sessions, pending, microq, nframes>>

\* up to the first await: storage.getSession(sessionId)
Connect(c, sessionId) ==
  /\ CanConnect(c)
  /\ Truthy(sessionId)
  /\ conns' = [conns EXCEPT ![c].readyState = "OPEN",
                            ![c].socketOnData = TRUE,
                            ![c].sessionId = sessionId]
  /\ microq' = Append(microq,
                 Task("ConnAfterGetSession", c, NoFrame, Undef,
                      getSession(sessions, sessionId.v), 0))
  /\ last' = Record("Connect", c, NoFrame, Undef, FALSE, 0, FALSE)
  /\ UNCHANGED <<running, now, heap, sessions, pending, nframes>>

\* the microtask at the head of the queue
Resume(pc) ==
  /\ pending.frames = <<>>
  /\ microq # <<>>
  /\ Head(microq).pc = pc

\* if (!session) session = await storage.createSession(sessionId)
ConnCreateSession ==
  /\ Resume("ConnAfterGetSession")
  /\ Head(microq).ref = NoSession
  /\ Elapse
  /\ LET t == Head(microq)
         r == createSession(heap, sessions, conns[t.c].sessionId.v, now')
     IN  /\ heap' = r.heap
         /\ sessions' = r.sessions
         /\ microq' = Append(Tail(microq),
                        Task("ConnAfterCreateSession", t.c, NoFrame, Undef,
                             Len(heap) + 1, 0))
         /\ last' = Record("ConnCreateSession", t.c, NoFrame, Undef, FALSE, 0, FALSE)
  /\ UNCHANGED <<running, conns, pending, nframes>>

\* ws.on("message"), ws.on("close"), ws.on("error")
ConnInstallHandlers ==
  /\ \/ Resume("ConnAfterGetSession") /\ Head(microq).ref # NoSession
     \/ Resume("ConnAfterCreateSession")
  /\ LET t == Head(microq)
     IN  /\ conns' = [conns EXCEPT ![t.c].handler = TRUE]
         /\ microq' = Tail(microq)
         /\ last' = Record("ConnInstallHandlers", t.c, NoFrame, Undef, TRUE, 0, FALSE)
  /\ UNCHANGED <<running, now, heap, sessions, pending, nframes>>

\* the process ends: its memory (the store, the listeners, the suspended
\* handlers) is gone and its sockets are closed.  cs is the connections as
\* the step leaves them.
ProcessExit(cs) ==
  /\ running' = FALSE
  /\ heap' = <<>>
  /\ sessions' = <<>>
  /\ conns' = [d \in Conns |->
                 [cs[d] EXCEPT !.readyState = IF @ = "NEW" THEN "NEW" ELSE "CLOSED",
                               !.handler = FALSE,
                               !.socketOnData = FALSE]]
  /\ pending' = [pending EXCEPT !.frames = <<>>]
  /\ microq' = <<>>

\* new URL(request.url, `http://${request.headers.host}`) throws on a Host
\* header that does not form a URL, before sessionId is read: nothing is
\* called on ws and nothing is installed.  The promise of the async
\* callback is rejected and nobody handles it; Node deals with the
\* rejection once the tick and microtask queues have drained
\* (UnhandledRejection).  sessionId is the parameter the request carried,
\* which the code never reads.
ConnectInvalidUrl(c, sessionId) ==
  /\ CanConnect(c)
  /\ conns' = [conns EXCEPT ![c].readyState = "OPEN",
                            ![c].socketOnData = TRUE]
  /\ microq' = Append(microq,
                 Task("UnhandledRejection", c, NoFrame, sessionId, NoSession, 0))
  /\ last' = Record("ConnectInvalidUrl", c, NoFrame, sessionId, TRUE, 0, TRUE)
  /\ UNCHANGED <<running, now, heap, sessions, pending, nframes>>

\* the rejected promise of a connection callback has no handler: the
\* process exits (the default since Node 15) or goes on
\* (--unhandled-rejections=warn, older Node)
UnhandledRejection(exits) ==
  /\ Resume("UnhandledRejection")
  /\ last' = Record("UnhandledRejection", Head(microq).c, NoFrame,
                    Head(microq).message, TRUE, 0, TRUE)
  /\ IF exits
     THEN ProcessExit(conns)
     ELSE /\ microq' = Tail(microq)
          /\ UNCHANGED <<running, heap, sessions, conns, pending>>
  /\ UNCHANGED <<now, nframes>>

\* the synchronous part of the connection callback of c has run and its
\* continuation (or the handling of its rejection) has not: the socket is
\* open and ws.on("message") and ws.on("error") have not run
Connecting(c) ==
  /\ running
  /\ pending.frames = <<>>
  /\ microq # <<>>
  /\ Head(microq).pc \in { "ConnAfterGetSession", "UnhandledRejection" }
  /\ Head(microq).c = c

\* the receiver reads the close frame of the peer: ws answers it and stops
\* reading, readyState is CLOSING and no event is emitted.  Suspended
\* handlers resume with that readyState; 'close' follows in a later
\* macrotask (TransportClose).
ReceiverConclude ==
  /\ pending.frames # <<>>
  /\ Head(pending.frames) = CloseFrame
  /\ conns' = [conns EXCEPT ![pending.c].readyState = "CLOSING",
                            ![pending.c].socketOnData = FALSE]
  /\ pending' = [pending EXCEPT !.frames = Tail(@)]
  /\ last' = Record("ReceiverConclude", pending.c, NoFrame, Undef, TRUE, 0, FALSE)
  /\ UNCHANGED <<running, now, heap, sessions, microq, nframes>>

\* the receiver reads a frame that breaks the protocol: ws starts closing
\* (readyState CLOSING), stops reading and emits 'error', while handlers
\* of earlier frames of the chunk are suspended.  The listener of line 486
\* only logs, and 'close' follows in a later macrotask (TransportClose); a
\* connection that has no listener (rejected, or still in its awaits)
\* makes emit throw, and the uncaught exception ends the process.
TransportError ==
  /\ pending.frames # <<>>
  /\ Head(pending.frames) = InvalidFrame
  /\ last' = Record("TransportError", pending.c, NoFrame, Undef, TRUE, 0,
                    ~conns[pending.c].handler)
  /\ IF conns[pending.c].handler
     THEN /\ conns' = [conns EXCEPT ![pending.c].readyState = "CLOSING",
                                    ![pending.c].socketOnData = FALSE]
          /\ pending' = [pending EXCEPT !.frames = Tail(@)]
          /\ UNCHANGED <<running, heap, sessions, microq>>
     ELSE ProcessExit(conns)
  /\ UNCHANGED <<now, nframes>>

\* the socket of c ends: the peer sent FIN (or reset the connection),
\* without a close frame or after one, or after ws stopped reading on a
\* protocol error.  ws sets readyState CLOSING and ends the receiver
\* (socketOnEnd, socketOnError); no event is emitted and no more data
\* comes; a data listener that is still attached stays until the socket
\* has closed.  'close' follows in a later callback (TransportClose),
\* after callbacks of other connections that were due.
SocketEnd(c) ==
  /\ Idle
  /\ conns[c].readyState \in {"OPEN", "CLOSING"}
  /\ ~conns[c].socketEnded
  /\ conns' = [conns EXCEPT ![c].readyState = "CLOSING",
                            ![c].socketEnded = TRUE]
  /\ last' = Record("SocketEnd", c, NoFrame, Undef, TRUE, 0, FALSE)
  /\ UNCHANGED <<running, now, heap, sessions, pending, microq, nframes>>

\* the socket of a connection that was closing has closed (the closing
\* handshake is over, the socket ended or was destroyed after an error, or
\* the close timer of ws ran out): the data listener is removed,
\* readyState is CLOSED and 'close' is emitted; the listener of line 482,
\* if installed, logs; no more events on c
TransportClose(c) ==
  /\ Idle
  /\ conns[c].readyState = "CLOSING"
  /\ conns' = [conns EXCEPT ![c].readyState = "CLOSED",
                            ![c].socketOnData = FALSE]
  /\ last' = Record("TransportClose", c, NoFrame, Undef, TRUE, 0, FALSE)
  /\ UNCHANGED <<running, now, heap, sessions, pending, microq, nframes>>

\* a frame of a kind the handler logs: JSON text of an object whose type is
\* UI_RESPONSE or TODO_CONFIRM, or AGENT_NOTE with a truthy message
IsLogged(frame) ==
  /\ frame.json
  /\ frame.v.t = "object"
  /\ \/ JSONparse(frame.v).type \in { Str(S_UI_RESPONSE), Str(S_TODO_CONFIRM) }
     \/ /\ JSONparse(frame.v).type = Str(S_AGENT_NOTE)
        /\ Truthy(JSONparse(frame.v).message)

\* the frames of a chunk received on c that reach storage.addApproval:
\* none when c has no listener
DueIn(c, frames) ==
  IF conns[c].handler
  THEN Cardinality({ i \in 1..Len(frames) : IsLogged(frames[i]) })
  ELSE 0

\* a chunk of inbound data holding one or more frames reaches the receiver
\* of c, which still reads the socket, and the socket has not ended.  Data that came with the upgrade
\* request is emitted right after the synchronous part of the connection
\* callback, before its continuation.
Receive(c) ==
  /\ Idle \/ (Connecting(c) /\ conns[c].received = 0)
  /\ conns[c].readyState \in {"OPEN", "CLOSING"}
  /\ conns[c].socketOnData
  /\ ~conns[c].socketEnded
  /\ \E frames \in Batches :
       /\ nframes + Len(frames) <= MaxFrames
       /\ conns[c].handler \/ frames \in UnheardBatches
       /\ pending' = [c |-> c, frames |-> frames]
       /\ nframes' = nframes + Len(frames)
       /\ conns' = [conns EXCEPT ![c].received = @ + Len(frames),
                                 ![c].due = @ + DueIn(c, frames)]
  /\ last' = Record("Receive", c, NoFrame, Undef, FALSE, 0, FALSE)
  /\ UNCHANGED <<running, now, heap, sessions, microq>>

\* ------------------------------------------------ ws.on("message", ...)
\* the receiver emits the next frame of the chunk: the listener, if there
\* is one, runs up to its first await
Emitting ==
  /\ pending.frames # <<>>
  /\ Head(pending.frames) \notin ControlFrames

Pop == pending' = [pending EXCEPT !.frames = Tail(@)]

Listening == Emitting /\ conns[pending.c].handler

\* const message = JSON.parse(data.toString()); message.type
ThrowsAtStart(frame) ==
  IF ~frame.json THEN "SyntaxError"
  ELSE IF JSONparse(frame.v) = Null THEN "TypeError"
  ELSE "none"

MessageType(frame) == Prop(JSONparse(frame.v), "type")

\* the session id captured by the closure of the connection
Sid(c) == conns[c].sessionId.v

\* number of entries the stored log of connection c gains from heap to h
Pushed(c, h) ==
  IF getSession(sessions, Sid(c)) = NoSession THEN 0
  ELSE Len(h[getSession(sessions, Sid(c))].approvals)
         - Len(heap[getSession(sessions, Sid(c))].approvals)

\* no listener was installed: the event has no effect
MessageNoListener ==
  /\ Emitting
  /\ ~conns[pending.c].handler
  /\ Pop
  /\ last' = Record("MessageNoListener", pending.c, Head(pending.frames),
                    Undef, TRUE, 0, FALSE)
  /\ UNCHANGED <<running, now, heap, sessions, conns, microq, nframes>>

\* JSON.parse throws, or the text is `null` and message.type throws
MessageThrows ==
  /\ Listening
  /\ ThrowsAtStart(Head(pending.frames)) # "none"
  /\ LET c == pending.c
         frame == Head(pending.frames)
     IN  /\ conns' = wsSend(conns, c, ErrorMsg(ThrowsAtStart(frame)))
         /\ last' = Record("MessageThrows", c, frame, Undef, TRUE, 0, TRUE)
  /\ Pop
  /\ UNCHANGED <<running, now, heap, sessions, microq, nframes>>

UiApprovalText(message) ==
  S_UI_RESPONSE \o <<" ">> \o TemplateString(message.promptId)
    \o <<" ","-",">"," ">> \o TemplateString(message.selectedOptionId)

\* type UI_RESPONSE, up to `await storage.addApproval`
MessageUiResponse ==
  /\ Listening
  /\ ThrowsAtStart(Head(pending.frames)) = "none"
  /\ MessageType(Head(pending.frames)) = Str(S_UI_RESPONSE)
  /\ Elapse
  /\ LET c == pending.c
         frame == Head(pending.frames)
         message == JSONparse(frame.v)
         approval == [ts |-> now', text |-> UiApprovalText(message)]
         h == addApproval(heap, sessions, Sid(c), approval)
     IN  /\ heap' = h
         /\ microq' = Append(microq,
                        [Task("UiAfterAddApproval", c, frame, message,
                              NoSession, Pushed(c, h))
                           EXCEPT !.before = heap[sessions[Sid(c)]].brief])
         /\ last' = Record("MessageUiResponse", c, frame, message,
                           FALSE, Pushed(c, h), FALSE)
  /\ Pop
  /\ UNCHANGED <<running, sessions, conns, nframes>>

\* message.promptId.toLowerCase() on a value that is not a string
UiPromptIdThrows ==
  /\ Resume("UiAfterAddApproval")
  /\ Head(microq).message.promptId.t # "string"
  /\ LET t == Head(microq)
     IN  /\ conns' = wsSend(conns, t.c, ErrorMsg("TypeError"))
         /\ microq' = Tail(microq)
         /\ last' = [Record("UiPromptIdThrows", t.c, t.frame, t.message,
                            TRUE, t.added, TRUE)
                        EXCEPT !.before = t.before]
  /\ UNCHANGED <<running, now, heap, sessions, pending, nframes>>

\* the brief field a prompt id selects: the first matching prefix of the
\* lower-cased id, "constraints" when none matches
BriefField(promptId) ==
  LET lc == toLowerCase(promptId)
  IN  IF startsWith(lc, S_style) THEN "style"
      ELSE IF startsWith(lc, S_palette) THEN "palette"
      ELSE IF startsWith(lc, S_finish) THEN "finish"
      ELSE "constraints"

\* the argument of updateBrief in the three scalar branches
ScalarUpdate(field, value) ==
  CASE field = "style"   -> [style |-> value]
    [] field = "palette" -> [palette |-> value]
    [] field = "finish"  -> [finish |-> value]

\* await storage.updateBrief(sessionId, { <field>: selectedOptionId })
UiUpdateScalar ==
  /\ Resume("UiAfterAddApproval")
  /\ Head(microq).message.promptId.t = "string"
  /\ BriefField(Head(microq).message.promptId.v) # "constraints"
  /\ LET t == Head(microq)
         field == BriefField(t.message.promptId.v)
     IN  /\ heap' = updateBrief(heap, sessions, Sid(t.c),
                      ScalarUpdate(field, t.message.selectedOptionId))
         /\ microq' = Append(Tail(microq), [t EXCEPT !.pc = "UiAfterUpdateBrief"])
         /\ last' = Record("UiUpdateScalar", t.c, t.frame, t.message,
                           FALSE, t.added, FALSE)
  /\ UNCHANGED <<running, now, sessions, conns, pending, nframes>>

\* const currentSession = await storage.getSession(sessionId)
UiGetSession ==
  /\ Resume("UiAfterAddApproval")
  /\ Head(microq).message.promptId.t = "string"
  /\ BriefField(Head(microq).message.promptId.v) = "constraints"
  /\ LET t == Head(microq)
     IN  /\ microq' = Append(Tail(microq),
                        [t EXCEPT !.pc = "UiAfterGetSession",
                                  !.ref = getSession(sessions, Sid(t.c))])
         /\ last' = Record("UiGetSession", t.c, t.frame, t.message,
                           FALSE, t.added, FALSE)
  /\ UNCHANGED <<running, now, heap, sessions, conns, pending, nframes>>

\* { ...currentSession.brief.constraints, [message.promptId]: selectedOptionId }
MergedConstraints(current, message) ==
  Spread(current,
         [k \in {message.promptId.v} |-> message.selectedOptionId])

\* mutant: the constraints are those the session had one step earlier, as
\* if they had been read before the await of getSession
UiUpdateConstraints_StaleRead ==
  /\ Resume("UiAfterGetSession")
  /\ Head(microq).ref # NoSession
  /\ LET t == Head(microq)
         constraints == MergedConstraints(last.pre.heap[t.ref].brief.constraints,
                                          t.message)
     IN  /\ heap' = updateBrief(heap, sessions, Sid(t.c),
                                [constraints |-> constraints])
         /\ microq' = Append(Tail(microq), [t EXCEPT !.pc = "UiAfterUpdateBrief"])
         /\ last' = Record("UiUpdateConstraints", t.c, t.frame, t.message,
                           FALSE, t.added, FALSE)
  /\ UNCHANGED <<running, now, sessions, conns, pending, nframes>>

\* if (currentSession) await storage.updateBrief(sessionId, { constraints })
UiUpdateConstraints ==
  /\ Resume("UiAfterGetSession")
  /\ Head(microq).ref # NoSession
  /\ LET t == Head(microq)
         constraints == MergedConstraints(heap[t.ref].brief.constraints, t.message)
     IN  /\ heap' = updateBrief(heap, sessions, Sid(t.c),
                                [constraints |-> constraints])
         /\ microq' = Append(Tail(microq), [t EXCEPT !.pc = "UiAfterUpdateBrief"])
         /\ last' = Record("UiUpdateConstraints", t.c, t.frame, t.message,
                           FALSE, t.added, FALSE)
  /\ UNCHANGED <<running, now, sessions, conns, pending, nframes>>

\* log(`Session saved after UI_RESPONSE`): the handler returns
UiDone ==
  /\ \/ Resume("UiAfterUpdateBrief")
     \/ Resume("UiAfterGetSession") /\ Head(microq).ref = NoSession
  /\ LET t == Head(microq)
     IN  /\ microq' = Tail(microq)
         /\ last' = [Record("UiDone", t.c, t.frame, t.message,
                            TRUE, t.added, FALSE)
                        EXCEPT !.before = t.before]
  /\ UNCHANGED <<running, now, heap, sessions, conns, pending, nframes>>

TodoApprovalText(message) ==
  S_TODO_CONFIRM \o <<" ","o","k","=">> \o TemplateString(message.ok)

\* mutant: the entry is not in the log when the handler goes on to reply
MessageTodoConfirm_Unrecorded ==
  /\ Listening
  /\ ThrowsAtStart(Head(pending.frames)) = "none"
  /\ MessageType(Head(pending.frames)) = Str(S_TODO_CONFIRM)
  /\ Elapse
  /\ LET c == pending.c
         frame == Head(pending.frames)
         message == JSONparse(frame.v)
     IN  /\ heap' = heap
         /\ microq' = Append(microq,
                        Task("TodoAfterAddApproval", c, frame, message,
                             NoSession, 0))
         /\ last' = Record("MessageTodoConfirm", c, frame, message,
                           FALSE, 0, FALSE)
  /\ Pop
  /\ UNCHANGED <<running, sessions, conns, nframes>>

\* type TODO_CONFIRM, up to `await storage.addApproval`
MessageTodoConfirm ==
  /\ Listening
  /\ ThrowsAtStart(Head(pending.frames)) = "none"
  /\ MessageType(Head(pending.frames)) = Str(S_TODO_CONFIRM)
  /\ Elapse
  /\ LET c == pending.c
         frame == Head(pending.frames)
         message == JSONparse(frame.v)
         approval == [ts |-> now', text |-> TodoApprovalText(message)]
         h == addApproval(heap, sessions, Sid(c), approval)
     IN  /\ heap' = h
         /\ microq' = Append(microq,
                        Task("TodoAfterAddApproval", c, frame, message,
                             NoSession, Pushed(c, h)))
         /\ last' = Record("MessageTodoConfirm", c, frame, message,
                           FALSE, Pushed(c, h), FALSE)
  /\ Pop
  /\ UNCHANGED <<running, sessions, conns, nframes>>

\* mutant: close is called before send
TodoAccepted_CloseFirst ==
  /\ Resume("TodoAfterAddApproval")
  /\ Truthy(Head(microq).message.ok)
  /\ LET t == Head(microq)
     IN  /\ conns' = wsSend(wsClose(conns, t.c, 1000, "Call finished"),
                            t.c, CallFinishedMsg(conns[t.c].sessionId))
         /\ microq' = Tail(microq)
         /\ last' = Record("TodoAccepted", t.c, t.frame, t.message,
                           TRUE, t.added, FALSE)
  /\ UNCHANGED <<running, now, heap, sessions, pending, nframes>>

\* if (message.ok): send CALL_FINISHED, close(1000, "Call finished")
TodoAccepted ==
  /\ Resume("TodoAfterAddApproval")
  /\ Truthy(Head(microq).message.ok)
  /\ LET t == Head(microq)
     IN  /\ conns' = wsClose(wsSend(conns, t.c,
                               CallFinishedMsg(conns[t.c].sessionId)),
                             t.c, 1000, "Call finished")
         /\ microq' = Tail(microq)
         /\ last' = Record("TodoAccepted", t.c, t.frame, t.message,
                           TRUE, t.added, FALSE)
  /\ UNCHANGED <<running, now, heap, sessions, pending, nframes>>

\* else: send the fixed TODO_PREVIEW
TodoRejected ==
  /\ Resume("TodoAfterAddApproval")
  /\ ~Truthy(Head(microq).message.ok)
  /\ LET t == Head(microq)
     IN  /\ conns' = wsSend(conns, t.c, TodoPreviewMsg)
         /\ microq' = Tail(microq)
         /\ last' = Record("TodoRejected", t.c, t.frame, t.message,
                           TRUE, t.added, FALSE)
  /\ UNCHANGED <<running, now, heap, sessions, pending, nframes>>

\* const noteMessage = message.message || ""
NoteMessage(message) ==
  IF Truthy(message.message) THEN message.message ELSE Str(<<>>)

NoteApprovalText(message) ==
  S_AGENT_NOTE \o <<":"," ">> \o TemplateString(NoteMessage(message))

\* type AGENT_NOTE with a truthy message, up to `await storage.addApproval`
MessageAgentNote ==
  /\ Listening
  /\ ThrowsAtStart(Head(pending.frames)) = "none"
  /\ MessageType(Head(pending.frames)) = Str(S_AGENT_NOTE)
  /\ Truthy(NoteMessage(JSONparse(Head(pending.frames).v)))
  /\ Elapse
  /\ LET c == pending.c
         frame == Head(pending.frames)
         message == JSONparse(frame.v)
         approval == [ts |-> now', text |-> NoteApprovalText(message)]
         h == addApproval(heap, sessions, Sid(c), approval)
     IN  /\ heap' = h
         /\ microq' = Append(microq,
                        Task("NoteAfterAddApproval", c, frame, message,
                             NoSession, Pushed(c, h)))
         /\ last' = Record("MessageAgentNote", c, frame, message,
                           FALSE, Pushed(c, h), FALSE)
  /\ Pop
  /\ UNCHANGED <<running, sessions, conns, nframes>>

\* type AGENT_NOTE with a missing or empty message: nothing is done
MessageAgentNoteEmpty ==
  /\ Listening
  /\ ThrowsAtStart(Head(pending.frames)) = "none"
  /\ MessageType(Head(pending.frames)) = Str(S_AGENT_NOTE)
  /\ ~Truthy(NoteMessage(JSONparse(Head(pending.frames).v)))
  /\ last' = Record("MessageAgentNoteEmpty", pending.c, Head(pending.frames),
                    JSONparse(Head(pending.frames).v), TRUE, 0, FALSE)
  /\ Pop
  /\ UNCHANGED <<running, now, heap, sessions, conns, microq, nframes>>

\* log(`Agent note recorded: ${noteMessage.slice(0, 100)}`)
NoteDone ==
  /\ Resume("NoteAfterAddApproval")
  /\ LET t == Head(microq)
         throws == NoteMessage(t.message).t # "string"
     IN  /\ conns' = IF throws THEN wsSend(conns, t.c, ErrorMsg("TypeError"))
                     ELSE conns
         /\ microq' = Tail(microq)
         /\ last' = Record("NoteDone", t.c, t.frame, t.message,
                           TRUE, t.added, throws)
  /\ UNCHANGED <<running, now, heap, sessions, pending, nframes>>

\* type PING: ws.send(JSON.stringify({ type: "PONG", ts: message.ts }))
MessagePing ==
  /\ Listening
  /\ ThrowsAtStart(Head(pending.frames)) = "none"
  /\ MessageType(Head(pending.frames)) = Str(S_PING)
  /\ LET c == pending.c
         frame == Head(pending.frames)
         message == JSONparse(frame.v)
     IN  /\ conns' = wsSend(conns, c, PongMsg(message.ts))
         /\ last' = Record("MessagePing", c, frame, message, TRUE, 0, FALSE)
  /\ Pop
  /\ UNCHANGED <<running, now, heap, sessions, microq, nframes>>

KnownTypes ==
  { Str(S_UI_RESPONSE), Str(S_TODO_CONFIRM), Str(S_AGENT_NOTE), Str(S_PING) }

\* no branch of the if-chain matches: the handler returns
MessageOther ==
  /\ Listening
  /\ ThrowsAtStart(Head(pending.frames)) = "none"
  /\ MessageType(Head(pending.frames)) \notin KnownTypes
  /\ last' = Record("MessageOther", pending.c, Head(pending.frames),
                    JSONparse(Head(pending.frames).v), TRUE, 0, FALSE)
  /\ Pop
  /\ UNCHANGED <<running, now, heap, sessions, conns, microq, nframes>>

\* ---------------------------------------------------------- specification
Next ==
  \/ \E c \in Conns, sessionId \in SessionIdParams : ConnectRejected(c, sessionId)
  \/ \E c \in Conns : \E sessionId \in SessionIdsOf(c) : Connect(c, sessionId)
  \/ \E c \in Conns, sessionId \in { Null, Str(<<"s","1">>) } :
       ConnectInvalidUrl(c, sessionId)
  \/ \E exits \in BOOLEAN : UnhandledRejection(exits)
  \/ ReceiverConclude
  \/ TransportError
  \/ ConnCreateSession
  \/ ConnInstallHandlers
  \/ \E c \in Conns : SocketEnd(c)
  \/ \E c \in Conns : TransportClose(c)
  \/ \E c \in Conns : Receive(c)
  \/ MessageNoListener
  \/ MessageThrows
  \/ MessageUiResponse
  \/ UiPromptIdThrows
  \/ UiUpdateScalar
  \/ UiGetSession
  \/ UiUpdateConstraints
  \/ UiDone
  \/ MessageTodoConfirm
  \/ TodoAccepted
  \/ TodoRejected
  \/ MessageAgentNote
  \/ MessageAgentNoteEmpty
  \/ NoteDone
  \/ MessagePing
  \/ MessageOther

Spec == Init /\ [][Next]_vars

\* ------------------------------------------- app.post("/api/session", ...)
\* The HTTP route that creates a session under an id drawn by
\* generateSessionId (randomBytes(5) in hex).  A WebSocket client names its
\* session id itself, so the id drawn can be one that is already in the
\* store.  A request takes one of the connections of a run; it is not a
\* WebSocket, so no frame is received on it.
GeneratedIds == { <<"s","1">>, <<"s","2">> }

\* up to `await storage.createSession(sessionId)`
PostSession(c, sessionId) ==
  /\ CanConnect(c)
  /\ Elapse
  /\ LET r == createSession(heap, sessions, sessionId, now')
     IN  /\ heap' = r.heap
         /\ sessions' = r.sessions
  /\ conns' = [conns EXCEPT ![c].readyState = "HTTP",
                            ![c].sessionId = Str(sessionId)]
  /\ microq' = Append(microq,
                 Task("PostAfterCreateSession", c, NoFrame, Undef,
                      Len(heap) + 1, 0))
  /\ last' = Record("PostSession", c, NoFrame, Undef, FALSE, 0, FALSE)
  /\ UNCHANGED <<running, pending, nframes>>

\* res.status(201).json({ sessionId })
PostRespond ==
  /\ Resume("PostAfterCreateSession")
  /\ LET t == Head(microq)
     IN  /\ conns' = [conns EXCEPT
                        ![t.c].out = Append(@, [call |-> "json", status |-> 201,
                                                sessionId |-> conns[t.c].sessionId])]
         /\ microq' = Tail(microq)
         /\ last' = Record("PostRespond", t.c, NoFrame, Undef, TRUE, 0, FALSE)
  /\ UNCHANGED <<running, now, heap, sessions, pending, nframes>>

\* the WebSocket server together with the route
NextHttp ==
  \/ Next
  \/ \E c \in Conns, sessionId \in GeneratedIds : PostSession(c, sessionId)
  \/ PostRespond

SpecHttp == Init /\ [][NextHttp]_vars

\* ------------------------- DbStorage.updateBrief and saveSession alone
\* The storage methods on their own: a store that holds one session, whose
\* brief is any of BriefInputs, and callers that pass any of UpdateInputs
\* and save any session object (no code of the server calls saveSession).
\* `updates` is Partial<PaintingBrief> to the compiler only; at run time it
\* is whatever object the caller passes.

K_room == <<"r","o","o","m">>
K_sty  == <<"s","t","y">>

ConstraintInputs ==
  { <<>>,
    [k \in {K_room} |-> Str(<<"a">>)],
    [k \in {K_room, K_sty} |-> Str(<<"a">>)] }

BriefInputs ==
  { [EmptyBrief EXCEPT !.style = st, !.rooms = r, !.constraints = cn] :
      st \in { Null, Str(<<"a">>) },
      r  \in { <<>>, <<"hall">> },
      cn \in ConstraintInputs }

UpdateInputs ==
  { <<>>,
    [style |-> Str(<<"b">>)],
    [style |-> Null],
    [rooms |-> <<"den">>],
    [constraints |-> <<>>],
    [constraints |-> [k \in {K_sty} |-> Str(<<"c">>)]],
    [constraints |-> [k \in {K_room} |-> Str(<<"c">>)]],
    [style |-> Str(<<"b">>), constraints |-> [k \in {K_sty} |-> Str(<<"c">>)]],
    [colour |-> Str(<<"c">>)],
    [colour |-> Str(<<"c">>), style |-> Str(<<"b">>)] }

\* ids the callers pass: the stored one and one that is not in the store
StoredId  == <<"s","1">>
UnknownId == <<"s","2">>

InitBrief ==
  /\ running = TRUE
  /\ now = 0
  /\ \E b \in BriefInputs :
       heap = << [NewSession(StoredId, 0) EXCEPT !.brief = b] >>
  /\ sessions = MapSet(<<>>, StoredId, 1)
  /\ conns = [c \in Conns |->
                [readyState |-> "NEW", sessionId |-> Undef,
                 handler |-> FALSE, socketOnData |-> FALSE,
                 socketEnded |-> FALSE,
                 out |-> <<>>, received |-> 0, due |-> 0]]
  /\ pending = [c |-> 1, frames |-> <<>>]
  /\ microq = <<>>
  /\ nframes = 0
  /\ last = [op |-> "Init", c |-> 0, frame |-> NoFrame, message |-> Undef,
             done |-> FALSE, added |-> 0, erred |-> FALSE,
             before |-> NoBrief,
             pre |-> [heap |-> heap, sessions |-> sessions, conns |-> conns]]

\* storage.updateBrief(sessionId, updates); last.message holds the arguments
StorageUpdateBrief(sessionId, updates) ==
  /\ heap' = updateBrief(heap, sessions, sessionId, updates)
  /\ last' = Record("updateBrief", 0, NoFrame,
                    [sessionId |-> sessionId, updates |-> updates],
                    TRUE, 0, FALSE)
  /\ UNCHANGED <<running, now, sessions, conns, pending, microq, nframes>>

\* the same call once more, with the arguments of the call before
StorageUpdateBriefAgain ==
  /\ last.op \in { "updateBrief", "updateBriefAgain" }
  /\ heap' = updateBrief(heap, sessions, last.message.sessionId,
                         last.message.updates)
  /\ last' = Record("updateBriefAgain", 0, NoFrame, last.message, TRUE, 0, FALSE)
  /\ UNCHANGED <<running, now, sessions, conns, pending, microq, nframes>>

\* Session objects a run of the storage methods constructs
MaxObjects == 2

\* the briefs of the objects a caller builds and saves
SavedBriefs ==
  { EmptyBrief,
    [EmptyBrief EXCEPT !.style = Str(<<"a">>),
                       !.constraints = [k \in {K_room} |-> Str(<<"a">>)]] }

\* storage.saveSession(session) with an object the store has handed out:
\* it is the session of its id again, also when createSession or another
\* save had replaced it
StorageSaveSession(ref) ==
  /\ ref \in 1..Len(heap)
  /\ sessions' = saveSession(heap, sessions, ref)
  /\ last' = Record("saveSession", 0, NoFrame,
                    [sessionId |-> heap[ref].id, ref |-> ref], TRUE, 0, FALSE)
  /\ UNCHANGED <<running, now, heap, conns, pending, microq, nframes>>

\* storage.saveSession(session) with an object the caller built
StorageSaveNewSession(sessionId, brief) ==
  /\ Len(heap) < MaxObjects
  /\ heap' = Append(heap, [NewSession(sessionId, now) EXCEPT !.brief = brief])
  /\ sessions' = saveSession(heap', sessions, Len(heap) + 1)
  /\ last' = Record("saveSession", 0, NoFrame,
                    [sessionId |-> sessionId, ref |-> Len(heap) + 1],
                    TRUE, 0, FALSE)
  /\ UNCHANGED <<running, now, conns, pending, microq, nframes>>

NextBrief ==
  \/ \E sessionId \in { StoredId, UnknownId }, updates \in UpdateInputs :
       StorageUpdateBrief(sessionId, updates)
  \/ StorageUpdateBriefAgain
  \/ \E ref \in 1..MaxObjects : StorageSaveSession(ref)
  \/ \E sessionId \in { StoredId, UnknownId }, brief \in SavedBriefs :
       StorageSaveNewSession(sessionId, brief)

SpecBrief == InitBrief /\ [][NextBrief]_vars

\* ======================================================== verification
\* The step that led to the current state is described by `last`; the
\* state it started from is last.pre.

\* steps of the message listener of a connection
UiSteps   == { "MessageUiResponse", "UiPromptIdThrows", "UiUpdateScalar",
               "UiGetSession", "UiUpdateConstraints", "UiDone" }
TodoSteps == { "MessageTodoConfirm", "TodoAccepted", "TodoRejected" }
NoteSteps == { "MessageAgentNote", "MessageAgentNoteEmpty", "NoteDone" }
ListenerSteps ==
  UiSteps \cup TodoSteps \cup NoteSteps
    \cup { "MessageThrows", "MessagePing", "MessageOther" }

\* the server accepted connection c: its request named a session id
Accepted(c) == Truthy(conns[c].sessionId)

\* the receiver has emitted a frame, to the listener or to nobody
FrameEmitted == last.op \in ListenerSteps \cup { "MessageNoListener" }

\* the type of the frame emitted
FrameType ==
  IF last.frame.json THEN Prop(JSONparse(last.frame.v), "type") ELSE Undef

\* the Session object stored for connection c, now and before the step
Stored(c)    == heap[sessions[conns[c].sessionId.v]]
StoredPre(c) == last.pre.heap[last.pre.sessions[conns[c].sessionId.v]]

\* s begins with the lower-case word p, letter case ignored
BeginsWithIgnoringCase(s, p) ==
  /\ Len(s) >= Len(p)
  /\ \A i \in 1..Len(p) :
       \E k \in 1..26 : Lower[k] = p[i] /\ s[i] \in { Lower[k], Upper[k] }

\* the scalar brief field a prompt id names, "none" if it names none
NamedScalar(promptId) ==
  IF BeginsWithIgnoringCase(promptId, <<"s","t","y","l","e">>) THEN "style"
  ELSE IF BeginsWithIgnoringCase(promptId, <<"p","a","l","e","t","t","e">>)
       THEN "palette"
  ELSE IF BeginsWithIgnoringCase(promptId, <<"f","i","n","i","s","h">>)
       THEN "finish"
  ELSE "none"

BriefFields == { "style", "palette", "finish", "vibe", "rooms", "constraints",
                 "timeline", "budget", "openQuestions" }

\* the handler of a UI_RESPONSE has just ended: it returned, or its catch
\* block ran
UiEnded == last.op \in { "UiDone", "UiPromptIdThrows" }

\* the promptId of the message begins, letter case ignored, with "style",
\* "palette" or "finish"
NamesScalar(message) ==
  /\ message.promptId.t = "string"
  /\ NamedScalar(message.promptId.v) # "none"

\* C1: when the handler of a UI_RESPONSE whose promptId begins, letter case
\* ignored, with "style", "palette" or "finish" has ended, the stored brief
\* has the nine fields, the named field holds selectedOptionId, and each of
\* the eight other fields holds the value it had when the message was
\* emitted.
C1_ScalarFieldReplaced ==
  (UiEnded /\ NamesScalar(last.message)) =>
    LET field == NamedScalar(last.message.promptId.v)
        after == Stored(last.c).brief
    IN  /\ DOMAIN after = BriefFields
        /\ after[field] = last.message.selectedOptionId
        /\ \A f \in BriefFields \ {field} : after[f] = last.before[f]

\* C2: when the handler of a UI_RESPONSE whose promptId does not begin with
\* "style", "palette" or "finish" has ended, the stored constraints have
\* the keys they had when the message was emitted and the key promptId,
\* promptId holds selectedOptionId and every other key its old value, and
\* each of the eight other brief fields holds the value it had when the
\* message was emitted.  The key of a promptId that is not a string is its
\* conversion to a string.
C2_ConstraintKeySet ==
  (UiEnded /\ ~NamesScalar(last.message)) =>
    LET key    == TemplateString(last.message.promptId)
        before == last.before
        after  == Stored(last.c).brief
    IN  /\ DOMAIN after = BriefFields
        /\ \A f \in BriefFields \ {"constraints"} : after[f] = before[f]
        /\ DOMAIN after.constraints = DOMAIN before.constraints \cup {key}
        /\ after.constraints[key] = last.message.selectedOptionId
        /\ \A k \in DOMAIN before.constraints \ {key} :
             after.constraints[k] = before.constraints[k]

\* the type of the message of a listener step, undefined when it has none
LastType == Prop(last.message, "type")

\* a listener step that ended the handling of a message without ERROR
HandledOk ==
  /\ last.op \in ListenerSteps
  /\ last.done
  /\ ~last.erred

\* C3 as stated: a message handled without ERROR appends exactly one
\* Approval, whatever its type and payload, except PING, which appends none.
C3_OneApprovalPerMessage ==
  HandledOk =>
    last.added = (IF LastType = Str(<<"P","I","N","G">>) THEN 0 ELSE 1)

\* entries the handling of a message is to append: one for UI_RESPONSE,
\* TODO_CONFIRM and AGENT_NOTE with a non-empty message, none otherwise
ApprovalsDue(message) ==
  IF Prop(message, "type") \in { Str(<<"U","I","_","R","E","S","P","O","N","S","E">>),
                                  Str(<<"T","O","D","O","_","C","O","N","F","I","R","M">>) }
    THEN 1
  ELSE IF /\ Prop(message, "type") = Str(<<"A","G","E","N","T","_","N","O","T","E">>)
          /\ message.message.t = "string"
          /\ message.message.v # <<>>
    THEN 1
  ELSE 0

\* C3 amended: a message handled without ERROR has appended exactly one
\* Approval when it is a UI_RESPONSE, a TODO_CONFIRM or an AGENT_NOTE with a
\* non-empty message, and none when it is a PING, an AGENT_NOTE with an
\* empty or missing message, or a message of another or no type; every step
\* of a listener keeps the entries already in the log, and only the first
\* step of those three handlers adds one.
C3_ApprovalPerKnownMessage ==
  last.op \in ListenerSteps =>
    LET before == StoredPre(last.c).approvals
        after  == Stored(last.c).approvals
        first  == last.op \in { "MessageUiResponse", "MessageTodoConfirm",
                                "MessageAgentNote" }
    IN  /\ Len(after) = Len(before) + (IF first THEN 1 ELSE 0)
        /\ SubSeq(after, 1, Len(before)) = before
        /\ HandledOk => last.added = ApprovalsDue(last.message)

\* C3 witness: a message of type "FOO" has been handled without ERROR and
\* added nothing to a log that holds the entry of an earlier message
C3_Witness ==
  /\ HandledOk
  /\ last.op = "MessageOther"
  /\ LastType = Str(<<"F","O","O">>)
  /\ Len(Stored(last.c).approvals) = 1
  /\ last.added = 0

\* the session id of a connection is fixed once it has connected
SessionIdFixed ==
  \A c \in Conns :
    last.pre.conns[c].readyState # "NEW" =>
      conns[c].sessionId = last.pre.conns[c].sessionId

\* C4: the handler of TODO_CONFIRM{ok: true} runs addApproval, touching no
\* connection, then calls send with CALL_FINISHED carrying the session id
\* of the connection and, next, close(1000, "Call finished"); nothing is
\* sent between the two, the connection is no longer open and no other
\* connection is touched.
C4_CallFinishedThenClose ==
  /\ SessionIdFixed
  /\ (last.op \in TodoSteps /\ last.message.ok = Bool(TRUE)) =>
       /\ last.op \in { "MessageTodoConfirm", "TodoAccepted" }
       /\ last.op = "MessageTodoConfirm" => conns = last.pre.conns
       /\ last.op = "TodoAccepted" =>
            /\ conns[last.c].out =
                 last.pre.conns[last.c].out \o
                   << [call |-> "send",
                       data |-> [type |-> "CALL_FINISHED",
                                 sessionId |-> last.pre.conns[last.c].sessionId]],
                      [call |-> "close", code |-> 1000,
                       reason |-> "Call finished"] >>
            /\ conns[last.c].readyState # "OPEN"
            /\ \A d \in Conns \ {last.c} : conns[d] = last.pre.conns[d]

\* C4 witness: an open connection bound to "s2" has just been sent
\* CALL_FINISHED{sessionId: "s2"} and closed
C4_Witness ==
  /\ last.op = "TodoAccepted"
  /\ last.message.ok = Bool(TRUE)
  /\ last.pre.conns[last.c].readyState = "OPEN"
  /\ conns[last.c].sessionId = Str(<<"s","2">>)
  /\ conns[last.c].readyState = "CLOSING"
  /\ Len(conns[last.c].out) = 2

\* the server has called close(1000, "Call finished") on the connection
ServerFinished(conn) ==
  \E i \in 1..Len(conn.out) :
    conn.out[i] = [call |-> "close", code |-> 1000, reason |-> "Call finished"]

\* C5: once the server has closed a connection in answer to
\* TODO_CONFIRM{ok: true}, no listener step of that connection (of a message
\* delivered later, or of a handler already in flight) changes a stored
\* session.  (A send called after close puts nothing on the wire, ws
\* discards it, so the store is where processing after the close shows.)
C5_NothingAfterServerClose ==
  (last.op \in ListenerSteps /\ ServerFinished(last.pre.conns[last.c])) =>
    heap = last.pre.heap

\* C6: the handler of TODO_CONFIRM{ok: false} runs addApproval, touching no
\* connection, then calls send once, with TODO_PREVIEW carrying the five
\* fixed items in order; it changes no stored session in that step, leaves
\* the readyState of the connection and its listener as they were and
\* touches no other connection.
C6_TodoPreviewOnReject ==
  (last.op \in TodoSteps /\ last.message.ok = Bool(FALSE)) =>
    /\ last.op \in { "MessageTodoConfirm", "TodoRejected" }
    /\ last.op = "MessageTodoConfirm" => conns = last.pre.conns
    /\ last.op = "TodoRejected" =>
         /\ conns[last.c].out =
              Append(last.pre.conns[last.c].out,
                [call |-> "send",
                 data |-> [type |-> "TODO_PREVIEW",
                           items |-> << "Review and finalize painting style preferences",
                                        "Confirm color palette selections",
                                        "Schedule initial consultation call",
                                        "Review project timeline and milestones",
                                        "Prepare room measurements and photos" >>]])
         /\ conns[last.c].readyState = last.pre.conns[last.c].readyState
         /\ conns[last.c].handler
         /\ \A d \in Conns \ {last.c} : conns[d] = last.pre.conns[d]
         /\ heap = last.pre.heap

\* C6 witness: TODO_PREVIEW has just been sent on a connection that is
\* still open, for a session whose brief is no longer empty
C6_Witness ==
  /\ last.op = "TodoRejected"
  /\ last.message.ok = Bool(FALSE)
  /\ conns[last.c].readyState = "OPEN"
  /\ Stored(last.c).brief.style = Str(<<"a">>)
  /\ Len(conns[last.c].out) = 1

\* the reply to a PING on an open connection: one PONG with the ts of the
\* frame, no stored session changed
PongEchoes ==
  /\ conns[last.c].out =
       Append(last.pre.conns[last.c].out,
              [call |-> "send",
               data |-> [type |-> "PONG", ts |-> last.frame.v.ts]])
  /\ \A d \in Conns \ {last.c} : conns[d] = last.pre.conns[d]
  /\ conns[last.c].readyState = "OPEN"
  /\ heap = last.pre.heap
  /\ sessions = last.pre.sessions

PingOnOpen ==
  /\ FrameEmitted
  /\ FrameType = Str(<<"P","I","N","G">>)
  /\ last.pre.conns[last.c].readyState = "OPEN"

\* C7: every PING{ts} received on an open connection is answered by
\* exactly one PONG carrying the same ts, brief, todos and approvals
\* unchanged.
C7_PongEchoesTs ==
  PingOnOpen => (last.op = "MessagePing" /\ PongEchoes)

\* connection c was opened without a sessionId parameter
NoSessionIdParam(c) ==
  /\ conns[c].readyState # "NEW"
  /\ conns[c].sessionId = Null

\* the request of the connection that has just been opened carried no
\* sessionId parameter
OpenedWithoutSessionId ==
  \/ last.op = "ConnectRejected" /\ conns[last.c].sessionId = Null
  \/ last.op = "ConnectInvalidUrl" /\ last.message = Null

\* C8: a connection opened without a sessionId parameter has had exactly
\* one call made on it, close(1008, "Missing sessionId parameter"), is not
\* open and has no listener; the only steps on it are its rejection, the
\* arrival of frames, their being dropped and the end of the transport,
\* and none of them creates or changes a stored session.
C8_MissingSessionIdRejected ==
  /\ OpenedWithoutSessionId =>
       /\ conns[last.c].out = << [call |-> "close", code |-> 1008,
                                  reason |-> "Missing sessionId parameter"] >>
       /\ ~conns[last.c].handler
       /\ conns[last.c].readyState # "OPEN"
       /\ heap = last.pre.heap
       /\ sessions = last.pre.sessions
  /\ \A c \in Conns :
       NoSessionIdParam(c) =>
         /\ conns[c].out = << [call |-> "close", code |-> 1008,
                               reason |-> "Missing sessionId parameter"] >>
         /\ ~conns[c].handler
         /\ conns[c].readyState # "OPEN"
  /\ (last.c \in Conns /\ NoSessionIdParam(last.c)) =>
       /\ last.op \in { "ConnectRejected", "Receive", "MessageNoListener",
                        "ReceiverConclude", "SocketEnd", "TransportClose",
                        "TransportError" }
       /\ heap = last.pre.heap
       /\ sessions = last.pre.sessions

\* C9: a connection request that names a session id which is not in the
\* store leaves a session under that id when its callback has ended;
\* createSession for an id that was not in the store leaves under that
\* id a session with that id, all scalar brief fields null, vibe, rooms and
\* openQuestions empty, no constraint, and no todo, message or approval;
\* the listener of the connection is not installed at that point, a
\* connection has a listener only when its session is in the store, and
\* every listener step finds the session in the store.
C9_UnknownIdCreatesEmptySession ==
  /\ (last.op = "ConnectInvalidUrl" /\ Truthy(last.message)
        /\ last.message.v \notin DOMAIN last.pre.sessions) =>
       last.message.v \in DOMAIN sessions
  /\ last.op = "ConnCreateSession" =>
       LET id == conns[last.c].sessionId.v
       IN  /\ id \notin DOMAIN last.pre.sessions
           /\ id \in DOMAIN sessions
           /\ Stored(last.c).id = id
           /\ Stored(last.c).brief =
                [style |-> [t |-> "null"], palette |-> [t |-> "null"],
                 finish |-> [t |-> "null"], timeline |-> [t |-> "null"],
                 budget |-> [t |-> "null"], vibe |-> <<>>, rooms |-> <<>>,
                 openQuestions |-> <<>>, constraints |-> <<>>]
           /\ Stored(last.c).todos = <<>>
           /\ Stored(last.c).messages = <<>>
           /\ Stored(last.c).approvals = <<>>
           /\ ~conns[last.c].handler
  /\ \A c \in Conns :
       conns[c].handler => conns[c].sessionId.v \in DOMAIN sessions
  /\ last.op \in ListenerSteps =>
       conns[last.c].sessionId.v \in DOMAIN last.pre.sessions

\* C10: a frame that is not JSON, received on a connection the server
\* accepted, is answered by exactly one send, of an
\* ERROR message, and its handling ends there; no stored session changes,
\* the connection keeps its readyState and its listener, and no other
\* connection is touched.
C10_MalformedJsonIsolated ==
  (FrameEmitted /\ Accepted(last.c) /\ ~last.frame.json) =>
    /\ last.op = "MessageThrows"
    /\ last.done
    /\ conns[last.c].out =
         Append(last.pre.conns[last.c].out,
                [call |-> "send",
                 data |-> [type |-> "ERROR", error |-> "SyntaxError"]])
    /\ conns[last.c].readyState = last.pre.conns[last.c].readyState
    /\ conns[last.c].handler
    /\ \A d \in Conns \ {last.c} : conns[d] = last.pre.conns[d]
    /\ heap = last.pre.heap
    /\ sessions = last.pre.sessions

\* C11: a message whose handling ends with an ERROR reply leaves the store
\* as it was before the message: the handler has appended no Approval and
\* its failing step changes no stored session.
C11_FailedMessageLeavesNoTrace ==
  (last.op \in ListenerSteps /\ last.erred) =>
    /\ last.added = 0
    /\ heap = last.pre.heap
    /\ sessions = last.pre.sessions

\* a suspended handler that has yet to call updateBrief
MutationLeft(task) ==
  \/ task.pc = "UiAfterAddApproval" /\ task.message.promptId.t = "string"
  \/ task.pc = "UiAfterGetSession" /\ task.ref # NoSession

\* C12: when the handler of a message makes its first store access
\* (addApproval), no handler of an earlier message of the same connection is
\* suspended with a store mutation still to make.
C12_NoOverlapOnOneConnection ==
  last.op \in { "MessageUiResponse", "MessageTodoConfirm", "MessageAgentNote" } =>
    \A i \in 1..(Len(microq) - 1) :
      ~(microq[i].c = last.c /\ MutationLeft(microq[i]))

\* s is a prefix of t
IsPrefix(s, t) == Len(s) <= Len(t) /\ SubSeq(t, 1, Len(s)) = s

\* the approvals stored under id, now and before the step
ApprovalsOf(id)    == heap[sessions[id]].approvals
ApprovalsOfPre(id) == last.pre.heap[last.pre.sessions[id]].approvals

\* C13: over every step (a connect, a disconnect, any segment of any
\* handler, on any connection) a session that held approvals before the
\* step is still in the store after it, and the approvals it held before
\* the step are a prefix of the approvals it holds after the step.
C13_ApprovalsAppendOnly ==
  \A id \in DOMAIN last.pre.sessions :
    ApprovalsOfPre(id) # <<>> =>
      /\ id \in DOMAIN sessions
      /\ IsPrefix(ApprovalsOfPre(id), ApprovalsOf(id))

\* a call of updateBrief for the stored session; its arguments, and the
\* brief before and after it
BriefCall ==
  /\ last.op \in { "updateBrief", "updateBriefAgain" }
  /\ last.message.sessionId = <<"s","1">>

BriefUpdates == last.message.updates
BriefBefore  == last.pre.heap[last.pre.sessions[<<"s","1">>]].brief
BriefAfter   == heap[sessions[<<"s","1">>]].brief

\* C14 as stated: updateBrief with an update that has the key constraints
\* leaves constraints with every key of the update at the update's value and
\* every other key of the current constraints at its old value.
C14_ConstraintsShallowMerged ==
  (BriefCall /\ "constraints" \in DOMAIN BriefUpdates) =>
    LET upd == BriefUpdates.constraints
        old == BriefBefore.constraints
        new == BriefAfter.constraints
    IN  /\ DOMAIN new = DOMAIN old \cup DOMAIN upd
        /\ \A k \in DOMAIN upd : new[k] = upd[k]
        /\ \A k \in DOMAIN old \ DOMAIN upd : new[k] = old[k]

\* C14 amended: updateBrief with an update that has the key constraints
\* leaves constraints with exactly the keys of the update, each at the
\* update's value; a key of the current constraints that the update does not
\* mention is gone.  Every field the update does not mention keeps its value.
C14_ConstraintsReplaced ==
  (BriefCall /\ "constraints" \in DOMAIN BriefUpdates) =>
    LET upd == BriefUpdates.constraints
        new == BriefAfter.constraints
    IN  /\ DOMAIN new = DOMAIN upd
        /\ \A k \in DOMAIN upd : new[k] = upd[k]
        /\ \A f \in DOMAIN BriefBefore \ DOMAIN BriefUpdates :
             f \in DOMAIN BriefAfter /\ BriefAfter[f] = BriefBefore[f]

\* C14 witness: { constraints: { sty: "c" } } was applied to a brief whose
\* constraints held room only; room is gone
C14_Witness ==
  /\ BriefCall
  /\ last.op = "updateBrief"
  /\ DOMAIN BriefUpdates = { "constraints" }
  /\ DOMAIN BriefUpdates.constraints = { <<"s","t","y">> }
  /\ DOMAIN BriefBefore.constraints = { <<"r","o","o","m">> }
  /\ DOMAIN BriefAfter.constraints = { <<"s","t","y">> }

\* C15: a call of updateBrief that repeats the call before it, with the same
\* session id and the same update, leaves every stored session, and so the
\* brief, as the first call left it.
C15_UpdateBriefIdempotent ==
  last.op = "updateBriefAgain" =>
    /\ heap = last.pre.heap
    /\ sessions = last.pre.sessions

\* C15 witness: { style: "b", constraints: { sty: "c" } } has been applied a
\* second time to the stored brief, which holds what the first call wrote
C15_Witness ==
  /\ last.op = "updateBriefAgain"
  /\ BriefCall
  /\ DOMAIN BriefUpdates = { "style", "constraints" }
  /\ BriefAfter.style = Str(<<"b">>)
  /\ DOMAIN BriefAfter.constraints = { <<"s","t","y">> }
  /\ BriefAfter.rooms = <<"hall">>

\* the keys of the update that are not fields of PaintingBrief
UnknownKeys == DOMAIN BriefUpdates \ BriefFields

\* C19 as stated: updateBrief with an update that has a key which is not a
\* PaintingBrief field leaves a brief without that key, every known field
\* the update does not mention keeping its value.
C19_UnknownKeysIgnored ==
  (BriefCall /\ UnknownKeys # {}) =>
    /\ UnknownKeys \cap DOMAIN BriefAfter = {}
    /\ \A f \in BriefFields \ DOMAIN BriefUpdates : BriefAfter[f] = BriefBefore[f]

\* C19 amended: updateBrief with an update that has a key which is not a
\* PaintingBrief field completes and copies that key, with the value of the
\* update, into the stored brief; every known field the update does not
\* mention keeps its value and every known field it mentions takes the
\* value of the update.
C19_UnknownKeysCopied ==
  (BriefCall /\ UnknownKeys # {}) =>
    /\ \A k \in UnknownKeys :
         k \in DOMAIN BriefAfter /\ BriefAfter[k] = BriefUpdates[k]
    /\ BriefFields \subseteq DOMAIN BriefAfter
    /\ \A f \in BriefFields \ DOMAIN BriefUpdates : BriefAfter[f] = BriefBefore[f]
    /\ \A f \in BriefFields \cap DOMAIN BriefUpdates : BriefAfter[f] = BriefUpdates[f]

\* C19 witness: { colour: "c", style: "b" } was applied to a brief that had
\* no key colour, style "a" and a room; the brief has colour "c", style "b"
\* and the room
C19_Witness ==
  /\ BriefCall
  /\ last.op = "updateBrief"
  /\ DOMAIN BriefUpdates = { "colour", "style" }
  /\ DOMAIN BriefBefore = BriefFields
  /\ BriefBefore.style = Str(<<"a">>)
  /\ BriefAfter.colour = Str(<<"c">>)
  /\ BriefAfter.style = Str(<<"b">>)
  /\ BriefAfter.rooms = <<"hall">>

\* the step made exactly one call on its connection, a send of an ERROR
ErrorSent ==
  /\ Len(conns[last.c].out) = Len(last.pre.conns[last.c].out) + 1
  /\ SubSeq(conns[last.c].out, 1, Len(last.pre.conns[last.c].out)) =
       last.pre.conns[last.c].out
  /\ conns[last.c].out[Len(conns[last.c].out)].call = "send"
  /\ conns[last.c].out[Len(conns[last.c].out)].data.type = "ERROR"

\* C16: a frame that holds JSON whose type is none of UI_RESPONSE,
\* TODO_CONFIRM, AGENT_NOTE, PING, or that has no type, changes no stored
\* session and is answered by one send of an ERROR message.
C16_UnknownTypeAnsweredWithError ==
  (last.op \in ListenerSteps /\ last.frame.json
     /\ LastType \notin { Str(<<"U","I","_","R","E","S","P","O","N","S","E">>),
                          Str(<<"T","O","D","O","_","C","O","N","F","I","R","M">>),
                          Str(<<"A","G","E","N","T","_","N","O","T","E">>),
                          Str(<<"P","I","N","G">>) }) =>
    /\ heap = last.pre.heap
    /\ sessions = last.pre.sessions
    /\ ErrorSent

\* a step for an AGENT_NOTE whose message is a string or missing, received
\* on a connection the server accepted
NoteStep ==
  /\ FrameEmitted
  /\ Accepted(last.c)
  /\ FrameType = Str(<<"A","G","E","N","T","_","N","O","T","E">>)
  /\ JSONparse(last.frame.v).message.t \in { "string", "undefined" }

\* the stored sessions differ from those before the step in nothing but the
\* approvals of the session of connection last.c
OnlyApprovalsChanged ==
  /\ sessions = last.pre.sessions
  /\ Len(heap) = Len(last.pre.heap)
  /\ \A r \in 1..Len(heap) :
       IF r = sessions[conns[last.c].sessionId.v]
       THEN [heap[r] EXCEPT !.approvals = last.pre.heap[r].approvals] = last.pre.heap[r]
       ELSE heap[r] = last.pre.heap[r]

\* C17: every AGENT_NOTE is handled by the listener.  The handler of
\* AGENT_NOTE with a non-empty string message runs
\* addApproval, which appends one Approval whose text is "AGENT_NOTE: "
\* followed by the message and changes nothing else in any session, then
\* returns without ERROR; no step of it makes a call on a connection.  The
\* handler of AGENT_NOTE with an empty or missing message is one step that
\* changes nothing and calls nothing.
C17_AgentNoteAppendsPrefixed ==
  NoteStep =>
    /\ last.op \in ListenerSteps
    /\ conns = last.pre.conns
    /\ ~last.erred
    /\ IF last.message.message.t = "string" /\ last.message.message.v # <<>>
       THEN /\ last.op \in { "MessageAgentNote", "NoteDone" }
            /\ last.op = "MessageAgentNote" =>
                 /\ OnlyApprovalsChanged
                 /\ Stored(last.c).approvals =
                      Append(StoredPre(last.c).approvals,
                             [ts |-> now,
                              text |-> <<"A","G","E","N","T","_","N","O","T","E",":"," ">>
                                         \o last.message.message.v])
            /\ last.op = "NoteDone" =>
                 /\ last.done
                 /\ last.added = 1
                 /\ heap = last.pre.heap
                 /\ sessions = last.pre.sessions
       ELSE /\ last.op = "MessageAgentNoteEmpty"
            /\ last.done
            /\ heap = last.pre.heap
            /\ sessions = last.pre.sessions

\* C18: every session id that was in the store
\* before a step is in the store after it, bound to the same record with
\* the same id and createdAt; a transport close or error changes no stored
\* session; a connection with a known session id installs its listener
\* without a store write, and createSession runs only for an id that was
\* not in the store and leaves every other record as it was.
C18_SessionSurvivesConnections ==
  /\ \A id \in DOMAIN last.pre.sessions :
       /\ id \in DOMAIN sessions
       /\ sessions[id] = last.pre.sessions[id]
       /\ heap[sessions[id]].id = id
       /\ heap[sessions[id]].createdAt = last.pre.heap[sessions[id]].createdAt
  /\ last.op \in { "ReceiverConclude", "SocketEnd", "TransportClose",
                   "TransportError", "Connect", "ConnInstallHandlers" } =>
       /\ heap = last.pre.heap
       /\ sessions = last.pre.sessions
  /\ last.op = "ConnCreateSession" =>
       /\ conns[last.c].sessionId.v \notin DOMAIN last.pre.sessions
       /\ SubSeq(heap, 1, Len(last.pre.heap)) = last.pre.heap

\* the text addApproval logs for UI_RESPONSE{promptId: key, selectedOptionId: value}
UiLogged(key, value) ==
  <<"U","I","_","R","E","S","P","O","N","S","E"," ">> \o key
    \o <<" ","-",">"," ">> \o value

\* the log stored under id has the entry of a UI_RESPONSE for key
KeyWritten(id, key) ==
  \E i \in 1..Len(ApprovalsOf(id)), value \in { <<"a">>, <<"b">> } :
    ApprovalsOf(id)[i].text = UiLogged(key, value)

\* the constraints keys the frames of the model write
ConstraintKeys == { <<"r","o","o","m">>, <<"s","t","y">> }

\* every handler that was started has returned
AllHandlersDone == pending.frames = <<>> /\ microq = <<>>

\* two connections bound to one session id have each received one frame,
\* the two being UI_RESPONSE for different constraints keys, and both
\* handlers have returned
TwoWritersDone ==
  /\ AllHandlersDone
  /\ conns[1].handler /\ conns[2].handler
  /\ conns[1].sessionId = conns[2].sessionId
  /\ conns[1].received = 1 /\ conns[2].received = 1
  /\ \A key \in ConstraintKeys : KeyWritten(conns[1].sessionId.v, key)

\* a UI_RESPONSE handler of connection c is suspended at one of its awaits
UiSuspended(c) ==
  \E i \in 1..Len(microq) :
    /\ microq[i].c = c
    /\ microq[i].pc \in { "UiAfterAddApproval", "UiAfterGetSession",
                          "UiAfterUpdateBrief" }

\* connection d is bound, open and read, and a frame may still come on it
Deliverable(d) ==
  /\ conns[d].handler
  /\ conns[d].readyState = "OPEN"
  /\ conns[d].socketOnData
  /\ ~conns[d].socketEnded
  /\ nframes < MaxFrames

\* a UI_RESPONSE handler of c is suspended, every frame of its chunk has
\* been emitted, and d is another connection bound to the same session id
\* on which a frame may come
HandlersMayInterleave(c, d) ==
  /\ c # d
  /\ conns[c].sessionId = conns[d].sessionId
  /\ UiSuspended(c)
  /\ pending.frames = <<>>
  /\ Deliverable(d)

\* C20 as stated: the UI_RESPONSE handlers of two connections bound to one
\* session id can interleave, that is, while a handler of one connection is
\* suspended at an await (before its write of the constraints or after
\* it), a message of the other connection can be delivered, so that its
\* handler runs before the suspended one resumes.
C20_HandlersInterleave ==
  \A c, d \in Conns :
    HandlersMayInterleave(c, d) => ENABLED Receive(d)

\* C20 amended: handlers of different connections never interleave (the
\* suspended handlers and the frames being emitted all belong to one
\* connection, and while a UI_RESPONSE handler is suspended no message of
\* another connection can be delivered), and once every handler has
\* returned, every constraints key for which a UI_RESPONSE was logged in a
\* session is in the constraints of that session: no update is lost, on
\* one connection or across two.
C20_NoLostUpdate ==
  /\ \A i \in 1..Len(microq) :
       /\ microq[i].c = microq[1].c
       /\ pending.frames # <<>> => microq[i].c = pending.c
  /\ \A c, d \in Conns :
       (c # d /\ UiSuspended(c)) => ~ENABLED Receive(d)
  /\ AllHandlersDone =>
       \A id \in DOMAIN sessions, key \in ConstraintKeys :
         KeyWritten(id, key) => key \in DOMAIN heap[sessions[id]].brief.constraints

\* C20 witness: two connections bound to one session id have each handled a
\* UI_RESPONSE, one for room and one for sty, and the stored constraints
\* hold both keys
C20_Witness ==
  /\ TwoWritersDone
  /\ DOMAIN Stored(1).brief.constraints = { <<"r","o","o","m">>, <<"s","t","y">> }

\* connection c is bound to the session id
BoundTo(c, id) == conns[c].handler /\ conns[c].sessionId = [t |-> "string", v |-> id]

\* the messages of the logged kinds received so far on the connections
\* bound to id
DueFor(id) ==
  Cardinality({ ck \in Conns \X (1..MaxFrames) :
                  BoundTo(ck[1], id) /\ ck[2] <= conns[ck[1]].due })

\* C21: for every session id, whatever the number of connections bound to
\* it and however their handlers were scheduled, the log never holds more
\* entries than UI_RESPONSE, TODO_CONFIRM and non-empty AGENT_NOTE messages
\* were received on those connections, and once every handler has returned
\* it holds exactly as many: none is lost, none is duplicated.
C21_ApprovalsAccumulate ==
  \A id \in DOMAIN sessions :
    /\ Len(ApprovalsOf(id)) <= DueFor(id)
    /\ AllHandlersDone => Len(ApprovalsOf(id)) = DueFor(id)

\* C21 witness: two connections bound to one session id have each handled
\* one message of a logged kind, every handler has returned, and the log
\* holds two entries
C21_Witness ==
  /\ AllHandlersDone
  /\ conns[1].handler /\ conns[2].handler
  /\ conns[1].sessionId = conns[2].sessionId
  /\ conns[1].due = 1 /\ conns[2].due = 1
  /\ Len(Stored(1).approvals) = 2
  /\ Stored(1).approvals[1].ts < Stored(1).approvals[2].ts

\* the records ever constructed for the session id
RecordsOf(id) == { r \in 1..Len(heap) : heap[r].id = id }

\* the requests POST /api/session that drew the session id
PostsOf(id) ==
  { c \in Conns : conns[c].readyState = "HTTP"
                    /\ conns[c].sessionId = [t |-> "string", v |-> id] }

\* createSession is not idempotent: the step that calls it, for an id that
\* is in the store or not, leaves under the id a record constructed in that
\* step, empty, with the current time as createdAt; a record that was
\* stored under the id is no longer reachable from the store (and is itself
\* left as it was), and the other ids keep their records.
CreateReplaces ==
  last.op \in { "PostSession", "ConnCreateSession" } =>
    LET id == conns[last.c].sessionId.v
    IN  /\ Len(heap) = Len(last.pre.heap) + 1
        /\ SubSeq(heap, 1, Len(last.pre.heap)) = last.pre.heap
        /\ DOMAIN sessions = DOMAIN last.pre.sessions \cup {id}
        /\ sessions[id] = Len(heap)
        /\ \A other \in DOMAIN last.pre.sessions \ {id} :
             sessions[other] = last.pre.sessions[other]
        /\ heap[sessions[id]] =
             [id |-> id, createdAt |-> now, messages |-> <<>>,
              todos |-> <<>>, approvals |-> <<>>,
              brief |-> [style |-> [t |-> "null"], palette |-> [t |-> "null"],
                         finish |-> [t |-> "null"], timeline |-> [t |-> "null"],
                         budget |-> [t |-> "null"], vibe |-> <<>>, rooms |-> <<>>,
                         openQuestions |-> <<>>, constraints |-> <<>>]]

\* the callback of connection c looked its session id up, found nothing
\* under it, and is suspended before its call of createSession
ObservedMissing(c) ==
  \E i \in 1..Len(microq) :
    /\ microq[i].c = c
    /\ microq[i].pc = "ConnAfterGetSession"
    /\ microq[i].ref = NoSession

\* d is the connection that would be opened next
NextToConnect(d) ==
  /\ conns[d].readyState = "NEW"
  /\ \A e \in Conns : e < d => conns[e].readyState # "NEW"

\* C22 as stated: createSession replaces whatever is stored under the id,
\* and two connections that connect with the same missing session id can
\* both observe it as missing: while the callback of one is suspended
\* between its getSession, which found nothing, and its createSession, the
\* callback of another connection with that session id can start and run
\* its getSession.
C22_BothObserveMissing ==
  /\ CreateReplaces
  /\ \A c, d \in Conns :
       (ObservedMissing(c) /\ pending.frames = <<>> /\ NextToConnect(d)) =>
         ENABLED Connect(d, conns[c].sessionId)

\* C22 amended: createSession replaces whatever is stored under the id
\* (a POST /api/session that draws an id in use resets that session), but
\* get-or-create of a connection is atomic: while a callback is suspended
\* between its getSession and its createSession no other connection or
\* request can start, a connection calls createSession only for an id that
\* is not in the store, it installs its listener only when the id is in the
\* store, and of the connections that connect with one session id at most
\* one creates it (the records ever made for an id are at most one more
\* than the POST requests that drew it).
C22_CreateReplacesConnectFinds ==
  /\ CreateReplaces
  /\ \A c, d \in Conns :
       ObservedMissing(c) =>
         /\ \A sessionId \in SessionIdParams : ~ENABLED Connect(d, sessionId)
         /\ \A id \in GeneratedIds : ~ENABLED PostSession(d, id)
  /\ last.op = "ConnCreateSession" =>
       conns[last.c].sessionId.v \notin DOMAIN last.pre.sessions
  /\ last.op = "ConnInstallHandlers" =>
       /\ conns[last.c].sessionId.v \in DOMAIN last.pre.sessions
       /\ heap = last.pre.heap
       /\ sessions = last.pre.sessions
  /\ \A id \in DOMAIN sessions :
       Cardinality(RecordsOf(id)) <= Cardinality(PostsOf(id)) + 1

\* C22 witness: a connection created a session and logged a choice in it;
\* POST /api/session has just drawn the same id, and the store holds under
\* it a second, empty record
C22_Witness ==
  /\ last.op = "PostSession"
  /\ conns[1].handler
  /\ conns[1].sessionId = conns[2].sessionId
  /\ conns[1].sessionId.v \in DOMAIN last.pre.sessions
  /\ Len(last.pre.heap[last.pre.sessions[conns[1].sessionId.v]].approvals) = 1
  /\ last.pre.heap[last.pre.sessions[conns[1].sessionId.v]].brief.style = Str(<<"a">>)
  /\ Len(heap) = 2
  /\ heap[sessions[conns[1].sessionId.v]].approvals = <<>>
  /\ heap[sessions[conns[1].sessionId.v]].brief.style = Null

\* the log entry of a TODO_CONFIRM message whose ok is the given value
TodoEntry(ok) ==
  CASE ok.t = "boolean" /\ ok.v ->
         <<"T","O","D","O","_","C","O","N","F","I","R","M"," ",
           "o","k","=","t","r","u","e">>
    [] ok.t = "boolean" /\ ~ok.v ->
         <<"T","O","D","O","_","C","O","N","F","I","R","M"," ",
           "o","k","=","f","a","l","s","e">>
    [] ok.t = "undefined" ->
         <<"T","O","D","O","_","C","O","N","F","I","R","M"," ",
           "o","k","=","u","n","d","e","f","i","n","e","d">>

\* the step that sends the reply to a TODO_CONFIRM message
TodoStep == last.op \in { "TodoAccepted", "TodoRejected" }

\* the replies of the given type sent on the connections bound to the id
RepliesSent(id, type) ==
  { p \in UNION { {c} \X (1..Len(conns[c].out)) : c \in Conns } :
      /\ BoundTo(p[1], id)
      /\ conns[p[1]].out[p[2]].call = "send"
      /\ conns[p[1]].out[p[2]].data.type = type }

\* the entries of the session's log whose text is one of the given texts
EntriesLogged(id, texts) ==
  { i \in 1..Len(ApprovalsOf(id)) : ApprovalsOf(id)[i].text \in texts }

\* C23: the approval of a TODO_CONFIRM message is recorded before its reply
\* is sent.  The step that sends CALL_FINISHED or TODO_PREVIEW finds the entry
\* "TODO_CONFIRM ok=<value>" of its message in the log of the bound session
\* and leaves the log as it is; and in every state the log of a session
\* holds at least as many "ok=true" entries as CALL_FINISHED has been sent
\* on the connections bound to it, and at least as many "ok=false" or
\* "ok=undefined" entries as TODO_PREVIEW has been sent.
C23_ApprovalBeforeReply ==
  /\ TodoStep =>
       /\ \E i \in 1..Len(ApprovalsOfPre(Sid(last.c))) :
            /\ ApprovalsOfPre(Sid(last.c))[i].text = TodoEntry(last.message.ok)
            /\ ApprovalsOfPre(Sid(last.c))[i].ts <= now
       /\ ApprovalsOf(Sid(last.c)) = ApprovalsOfPre(Sid(last.c))
       /\ Len(conns[last.c].out) > Len(last.pre.conns[last.c].out)
  /\ \A id \in DOMAIN sessions :
       /\ Cardinality(RepliesSent(id, "CALL_FINISHED"))
            <= Cardinality(EntriesLogged(id, { TodoEntry(Bool(TRUE)) }))
       /\ Cardinality(RepliesSent(id, "TODO_PREVIEW"))
            <= Cardinality(EntriesLogged(id, { TodoEntry(Bool(FALSE)),
                                               TodoEntry(Undef) }))

\* C23 witness: a connection declined the list and was sent TODO_PREVIEW,
\* then accepted it and has just been sent CALL_FINISHED; the log holds the
\* two entries, in that order
C23_Witness ==
  /\ last.op = "TodoAccepted"
  /\ last.c = 1
  /\ Len(conns[1].out) = 3
  /\ conns[1].out[1] = SendCall(TodoPreviewMsg)
  /\ conns[1].out[2].call = "send"
  /\ conns[1].out[2].data.type = "CALL_FINISHED"
  /\ conns[1].out[3].call = "close"
  /\ Len(ApprovalsOf(Sid(1))) = 2
  /\ ApprovalsOf(Sid(1))[1].text = TodoEntry(Bool(FALSE))
  /\ ApprovalsOf(Sid(1))[2].text = TodoEntry(Bool(TRUE))
  /\ ApprovalsOfPre(Sid(1)) = ApprovalsOf(Sid(1))

====
